---- MODULE Spec2Model ----
(***************************************************************************)
(* The .env parser of godotenv (parseBytesWithComments and the functions   *)
(* it calls) and the annotation validator (GenerateSpecsFromComments).     *)
(*                                                                         *)
(* A Go string or []byte is a sequence of one-character strings.  Every    *)
(* buffer of the model is ASCII, so a byte index and a rune index are the  *)
(* same number and []rune(string(b)) keeps positions.  Go indexes from 0,  *)
(* TLA+ sequences from 1: a Go index i is kept as the number i, and the    *)
(* character at Go index i is s[i + 1].                                    *)
(***************************************************************************)
EXTENDS Integers, Sequences, FiniteSets, TLC

VARIABLES
  src,           \* the buffer handed to parseBytesWithComments
  cutset,        \* the part of the buffer the parse loop has not consumed
  out,           \* the output mapping (key -> value)
  wantComments,  \* whether the caller passed a comment mapping (comments != nil)
  comments,      \* the comment mapping (key -> comment)
  err,           \* the error the call returned
  pc,            \* where the call is: "start", "loop", "done"; "specs" after
                 \* GenerateSpecsFromComments; "call" and "ret" around a
                 \* single function of the package
  specs,         \* the result of GenerateSpecsFromComments
  str,           \* the string argument of the function applied alone
  ret            \* its result

allvars == <<src, cutset, out, wantComments, comments, err, pc, specs, str, ret>>

----------------------------------------------------------------------------
(* Characters *)

charComment == "#"
prefixSingleQuote == "'"
prefixDoubleQuote == "\""
exportPrefix == <<"e", "x", "p", "o", "r", "t">>

BS == "\\"
NL == "\n"
CR == "\r"
VT == "\\v"   \* the one character U+000B, which TLA+ strings cannot escape

\* isSpace: blank characters, the line feed left out (0x85 and 0xA0 are not
\* ASCII and are outside every buffer of the model).
SpaceChars == {"\t", VT, "\f", CR, " "}

\* unicode.IsSpace on ASCII: isSpace's characters and the line feed.
UnicodeSpaceChars == SpaceChars \cup {NL}

LineEndChars == {NL, CR}

UpperChars ==
  {"A", "B", "C", "D", "E", "F", "G", "H", "I", "J", "K", "L", "M",
   "N", "O", "P", "Q", "R", "S", "T", "U", "V", "W", "X", "Y", "Z"}

LowerChars ==
  {"a", "b", "c", "d", "e", "f", "g", "h", "i", "j", "k", "l", "m",
   "n", "o", "p", "q", "r", "s", "t", "u", "v", "w", "x", "y", "z"}

DigitChars == {"0", "1", "2", "3", "4", "5", "6", "7", "8", "9"}

\* unicode.IsLetter(r) || unicode.IsNumber(r) on ASCII
IsLetterOrNumber(c) == c \in UpperChars \cup LowerChars \cup DigitChars

\* [A-Z0-9_] of expandVarRegex
VarNameChars == UpperChars \cup DigitChars \cup {"_"}

----------------------------------------------------------------------------
(* Slices *)

Drop(s, n) == SubSeq(s, n + 1, Len(s))       \* s[n:]
Take(s, n) == SubSeq(s, 1, n)                \* s[0:n]
Slice(s, a, b) == SubSeq(s, a + 1, b)        \* s[a:b]

HasPrefix(s, p) == Len(s) >= Len(p) /\ Take(s, Len(p)) = p

\* bytes.IndexFunc(s, r \in set): the Go index of the first character of s
\* in set, -1 when there is none.
IndexIn(s, set) ==
  IF \E i \in 1..Len(s) : s[i] \in set
  THEN (CHOOSE i \in 1..Len(s) :
          s[i] \in set /\ \A j \in 1..(i - 1) : s[j] \notin set) - 1
  ELSE -1

\* bytes.IndexFunc(s, r \notin set)
IndexNotIn(s, set) ==
  IF \E i \in 1..Len(s) : s[i] \notin set
  THEN (CHOOSE i \in 1..Len(s) :
          s[i] \notin set /\ \A j \in 1..(i - 1) : s[j] \in set) - 1
  ELSE -1

\* bytes.TrimLeftFunc(s, r \in set)
TrimLeftFunc(s, set) ==
  LET i == IndexNotIn(s, set) IN IF i = -1 THEN <<>> ELSE Drop(s, i)

\* bytes.TrimRightFunc(s, r \in set)
TrimRightFunc(s, set) ==
  IF \E i \in 1..Len(s) : s[i] \notin set
  THEN Take(s, CHOOSE i \in 1..Len(s) :
                 s[i] \notin set /\ \A j \in (i + 1)..Len(s) : s[j] \in set)
  ELSE <<>>

TrimFunc(s, set) == TrimLeftFunc(TrimRightFunc(s, set), set)

\* strings.TrimSpace
TrimSpace(s) == TrimFunc(s, UnicodeSpaceChars)

\* A Go map[string]string is a function on the set of its keys.
EmptyMap == <<>>

MapPut(m, k, v) == [x \in DOMAIN m \cup {k} |-> IF x = k THEN v ELSE m[x]]

\* Mutant of MapGet: a name the map does not hold stays in the text.
MapGetKeepsName(m, k) == IF k \in DOMAIN m THEN m[k] ELSE k

\* m[k] of a Go map: the zero value "" for a key the map does not hold.
MapGet(m, k) == IF k \in DOMAIN m THEN m[k] ELSE <<>>

----------------------------------------------------------------------------
(* Regular expressions *)

\* Go index just after the longest run of [A-Z0-9_] of s that starts at
\* Go index i.
RECURSIVE NameEnd(_, _)
NameEnd(s, i) ==
  IF i < Len(s) /\ s[i + 1] \in VarNameChars THEN NameEnd(s, i + 1) ELSE i

\* Whether expandVarRegex, (\\)?(\$)(\()?\{?([A-Z0-9_]+)?\}?, matches at
\* the start of s.
VarMatchesAt(s) ==
  \/ Len(s) >= 1 /\ s[1] = "$"
  \/ Len(s) >= 2 /\ s[1] = BS /\ s[2] = "$"

\* The match of expandVarRegex at the start of s (VarMatchesAt(s)): its
\* groups 1 to 4 and its length.  Every optional part is greedy and what
\* follows it is optional too, so each is taken when its character is there.
VarSubmatch(s) ==
  LET g1 == IF s[1] = BS THEN <<BS>> ELSE <<>>
      p2 == Len(g1)                                   \* Go index of the $
      p3 == p2 + 1
      g3 == IF p3 < Len(s) /\ s[p3 + 1] = "(" THEN <<"(">> ELSE <<>>
      pb == p3 + Len(g3)
      p4 == IF pb < Len(s) /\ s[pb + 1] = "{" THEN pb + 1 ELSE pb
      pe == NameEnd(s, p4)
      pz == IF pe < Len(s) /\ s[pe + 1] = "}" THEN pe + 1 ELSE pe
  IN [g1 |-> g1, g2 |-> <<"$">>, g3 |-> g3, g4 |-> Slice(s, p4, pe),
      len |-> pz]

\* The replacement function of expandVariables, for the match s.
ExpandVarsRepl(s, m) ==
  LET submatch == VarSubmatch(s) IN
  IF submatch.g1 = <<BS>> \/ submatch.g2 = <<"(">>
  THEN Drop(s, 1)
  ELSE IF submatch.g4 # <<>>
       THEN MapGet(m, submatch.g4)
       ELSE s

RECURSIVE expandVariables(_, _)
expandVariables(v, m) ==
  IF v = <<>> THEN <<>>
  ELSE IF VarMatchesAt(v)
       THEN LET n == VarSubmatch(v).len IN
            ExpandVarsRepl(Take(v, n), m) \o expandVariables(Drop(v, n), m)
       ELSE <<v[1]>> \o expandVariables(Tail(v), m)

\* Mutant of EscapeRepl: the first pass also drops the backslash of a pair
\* that is neither \n nor \r.
EscapeReplStrips(match) ==
  LET c == Drop(match, 1) IN
  IF c = <<"n">> THEN <<NL>>
  ELSE IF c = <<"r">> THEN <<CR>>
  ELSE c

\* The replacement function of expandEscapes' first pass, for the match
\* of escapeRegex, a backslash and one character.
EscapeRepl(match) ==
  LET c == Drop(match, 1) IN
  IF c = <<"n">> THEN <<NL>>
  ELSE IF c = <<"r">> THEN <<CR>>
  ELSE match

\* escapeRegex.ReplaceAllStringFunc: \\. matches a backslash and one
\* character other than a line feed, left to right, without overlap.
RECURSIVE EscapePass(_)
EscapePass(s) ==
  IF s = <<>> THEN <<>>
  ELSE IF s[1] = BS /\ Len(s) >= 2 /\ s[2] # NL
       THEN EscapeRepl(Take(s, 2)) \o EscapePass(Drop(s, 2))
       ELSE <<s[1]>> \o EscapePass(Tail(s))

\* unescapeCharsRegex.ReplaceAllString(s, "$1"): \\([^$]) matches a
\* backslash and one character other than $, and leaves the character.
RECURSIVE UnescapePass(_)
UnescapePass(s) ==
  IF s = <<>> THEN <<>>
  ELSE IF s[1] = BS /\ Len(s) >= 2 /\ s[2] # "$"
       THEN <<s[2]>> \o UnescapePass(Drop(s, 2))
       ELSE <<s[1]>> \o UnescapePass(Tail(s))

expandEscapes(s) == UnescapePass(EscapePass(s))

----------------------------------------------------------------------------
(* The scanner *)

NoErr == "nil"
ErrUnexpectedChar == "unexpected character in variable name"
ErrZeroLength == "zero length string"
ErrUnterminated == "unterminated quoted value"

\* bytes.Replace(src, "\r\n", "\n", -1)
RECURSIVE ReplaceCRLF(_)
ReplaceCRLF(s) ==
  IF s = <<>> THEN <<>>
  ELSE IF Len(s) >= 2 /\ s[1] = CR /\ s[2] = NL
       THEN <<NL>> \o ReplaceCRLF(Drop(s, 2))
       ELSE <<s[1]>> \o ReplaceCRLF(Tail(s))

indexOfNonSpaceChar(s) == IndexNotIn(s, UnicodeSpaceChars)

\* getStatementStart returns nil or a slice that is not empty: the empty
\* sequence stands for nil.
RECURSIVE getStatementStart(_)
getStatementStart(s) ==
  LET pos == indexOfNonSpaceChar(s) IN
  IF pos = -1 THEN <<>>
  ELSE LET s1 == Drop(s, pos) IN
       IF s1[1] # charComment THEN s1
       ELSE LET pos2 == IndexIn(s1, {NL}) IN
            IF pos2 = -1 THEN <<>>
            ELSE getStatementStart(Drop(s1, pos2))

\* The loop of locateKeyName from Go index i on: where and how it ends.
RECURSIVE ScanKey(_, _)
ScanKey(s, i) ==
  IF i >= Len(s) THEN [kind |-> "end", i |-> i]
  ELSE LET char == s[i + 1] IN
       IF char \in SpaceChars THEN ScanKey(s, i + 1)
       ELSE IF char \in {"=", ":"} THEN [kind |-> "delim", i |-> i]
       ELSE IF char = "_" THEN ScanKey(s, i + 1)
       ELSE IF IsLetterOrNumber(char) \/ char = "." THEN ScanKey(s, i + 1)
       ELSE [kind |-> "bad", i |-> i]

\* Mutant of IsZeroLength: the check after the loop is left out.
NeverZeroLength(s) == FALSE

\* len(src) == 0, after the loop
IsZeroLength(s) == Len(s) = 0

locateKeyName(s0) ==
  LET s1 == TrimLeftFunc(s0, SpaceChars)
      s == IF HasPrefix(s1, exportPrefix)
           THEN LET trimmed == Drop(s1, Len(exportPrefix)) IN
                IF IndexIn(trimmed, SpaceChars) = 0
                THEN TrimLeftFunc(trimmed, SpaceChars)
                ELSE s1
           ELSE s1
      scan == ScanKey(s, 0)
      key == IF scan.kind = "delim" THEN Take(s, scan.i) ELSE <<>>
      offset == IF scan.kind = "delim" THEN scan.i + 1 ELSE 0
  IN IF scan.kind = "bad"
     THEN [key |-> <<>>, cutset |-> <<>>, err |-> ErrUnexpectedChar]
     ELSE IF IsZeroLength(s)
     THEN [key |-> <<>>, cutset |-> <<>>, err |-> ErrZeroLength]
     ELSE [key |-> TrimRightFunc(key, UnicodeSpaceChars),
           cutset |-> TrimLeftFunc(Drop(s, offset), SpaceChars),
           err |-> NoErr]

----------------------------------------------------------------------------
(* The value extractor *)

\* findEndOfLine: never -1.
findEndOfLine(s) ==
  LET endOfLine == IndexIn(s, LineEndChars) IN
  IF endOfLine = -1 THEN Len(s) ELSE endOfLine

\* findEndOfVar: the Go index of the last # of the line that follows a
\* blank, the length of the line when there is none.
findEndOfVar(line) ==
  LET hits == {i \in 1..(Len(line) - 1) :
                 line[i + 1] = charComment /\ line[i] \in SpaceChars}
  IN IF hits = {} THEN Len(line)
     ELSE CHOOSE i \in hits : \A j \in hits : j <= i

hasQuotePrefix(s) ==
  Len(s) # 0 /\ s[1] \in {prefixDoubleQuote, prefixSingleQuote}

extractUnquotedValue(s, m) ==
  LET eol0 == findEndOfLine(s)
      endOfLine == IF eol0 = -1 THEN Len(s) ELSE eol0
  IN IF eol0 = -1 /\ endOfLine = 0
     THEN [value |-> <<>>, comment |-> <<>>, rest |-> <<>>, err |-> NoErr]
     ELSE
  LET line == Take(s, endOfLine)
      endOfVar == findEndOfVar(line)
      whole == Len(line) > 0 /\ endOfVar = endOfLine
               /\ HasPrefix(line, <<charComment>>)
      trimmed == IF whole THEN <<>>
                 ELSE TrimFunc(Take(line, endOfVar), SpaceChars)
      comment == IF whole THEN TrimSpace(Slice(line, 1, endOfLine))
                 ELSE IF endOfLine > endOfVar + 1
                      THEN TrimSpace(Slice(s, endOfVar + 1, endOfLine))
                      ELSE <<>>
  IN [value |-> expandVariables(trimmed, m), comment |-> comment,
      rest |-> Drop(s, endOfLine), err |-> NoErr]

\* The Go index of the closing quote: the first index from 1 on that holds
\* the quote character and does not follow a backslash; -1 when there is none.
ClosingQuote(s, quote) ==
  LET hits == {i \in 1..(Len(s) - 1) : s[i + 1] = quote /\ s[i] # BS}
  IN IF hits = {} THEN -1 ELSE CHOOSE i \in hits : \A j \in hits : i <= j

extractQuotedValue(s, m, quote) ==
  LET i == ClosingQuote(s, quote) IN
  IF i = -1
  THEN [value |-> <<>>, comment |-> <<>>, rest |-> <<>>,
        err |-> ErrUnterminated]
  ELSE
  LET value == TrimLeftFunc(TrimRightFunc(Take(s, i), {quote}), {quote})
      eol0 == findEndOfLine(s)
      endOfLine == IF eol0 = -1 THEN Len(s) ELSE eol0
      line == Take(s, endOfLine)
      endOfVar == findEndOfVar(line)
      comment == IF endOfLine > endOfVar + 1
                 THEN TrimSpace(Slice(s, endOfVar + 1, endOfLine))
                 ELSE <<>>
  IN [value |-> IF quote = prefixDoubleQuote
                THEN expandVariables(expandEscapes(value), m)
                ELSE value,
      comment |-> comment, rest |-> Drop(s, i + 1), err |-> NoErr]

extractVarValue(s, m) ==
  IF ~hasQuotePrefix(s)
  THEN extractUnquotedValue(s, m)
  ELSE extractQuotedValue(s, m, s[1])

----------------------------------------------------------------------------
(* parseBytesWithComments *)

\* Mutant of ReturnErr: a failed call rolls the two mappings back.
ReturnErrCleared(c, o, cm, e) ==
  [pc |-> "done", err |-> e, cutset |-> c, out |-> EmptyMap,
   comments |-> EmptyMap]

\* return err: the call ends and leaves the two mappings as they are.
ReturnErr(c, o, cm, e) ==
  [pc |-> "done", err |-> e, cutset |-> c, out |-> o, comments |-> cm]

\* return nil, and the break followed by return nil
ReturnNil(c, o, cm) ==
  [pc |-> "done", err |-> NoErr, cutset |-> c, out |-> o, comments |-> cm]

\* Mutant of StoreStatement: cutset = left is left out.
StoreStatementNoAdvance(c, o, cm, w, key, v) ==
  [pc |-> "loop", err |-> NoErr, cutset |-> c,
   out |-> MapPut(o, key, v.value),
   comments |-> IF w /\ Len(v.comment) > 0
                THEN MapPut(cm, key, v.comment)
                ELSE cm]

\* out[key] = value; cutset = left; the comment is kept when the caller
\* passed a comment mapping (w) and the comment is not empty.
StoreStatement(c, o, cm, w, key, v) ==
  [pc |-> "loop", err |-> NoErr, cutset |-> v.rest,
   out |-> MapPut(o, key, v.value),
   comments |-> IF w /\ Len(v.comment) > 0
                THEN MapPut(cm, key, v.comment)
                ELSE cm]

\* One iteration of the loop on the cursor c, the output mapping o and the
\* comment mapping cm, up to the return, the break or the next iteration.
\* cutset = getStatementStart(cutset) comes first, so a return leaves the
\* cursor at the statement it was reading.
LoopBody(c, o, cm, w) ==
  LET start == getStatementStart(c) IN
  IF start = <<>> THEN ReturnNil(start, o, cm)     \* reached end of file
  ELSE
  LET k == locateKeyName(start) IN
  IF k.err # NoErr THEN ReturnErr(start, o, cm, k.err)
  ELSE IF k.key = <<>> THEN ReturnNil(start, o, cm)
  ELSE
  LET v == extractVarValue(k.cutset, o) IN
  IF v.err # NoErr THEN ReturnErr(start, o, cm, v.err)
  ELSE StoreStatement(start, o, cm, w, k.key, v)

\* The loop, run to its end.
RECURSIVE ParseLoop(_, _, _, _)
ParseLoop(c, o, cm, w) ==
  LET r == LoopBody(c, o, cm, w) IN
  IF r.pc = "done" THEN r ELSE ParseLoop(r.cutset, r.out, r.comments, w)

\* A whole call on the buffer b with empty mappings.
parseBytesWithComments(b, w) ==
  ParseLoop(ReplaceCRLF(b), EmptyMap, EmptyMap, w)

\* src = bytes.Replace(src, "\r\n", "\n", -1); cutset := src
Normalize ==
  /\ pc = "start"
  /\ cutset' = ReplaceCRLF(src)
  /\ pc' = "loop"
  /\ UNCHANGED <<src, out, wantComments, comments, err, specs, str, ret>>

Iterate ==
  /\ pc = "loop"
  /\ LET r == LoopBody(cutset, out, comments, wantComments) IN
       /\ pc' = r.pc
       /\ err' = r.err
       /\ cutset' = r.cutset
       /\ out' = r.out
       /\ comments' = r.comments
  /\ UNCHANGED <<src, wantComments, specs, str, ret>>

----------------------------------------------------------------------------
(* Buffers *)

RECURSIVE Concat(_)
Concat(ts) == IF ts = <<>> THEN <<>> ELSE Head(ts) \o Concat(Tail(ts))

\* The buffers made of at most n pieces of T.
Buffers(T, n) == {Concat(ts) : ts \in UNION {[1..k -> T] : k \in 0..n}}

\* The state of a call of parseBytesWithComments on a buffer of bufs,
\* before its first line: the output mapping and the comment mapping are
\* empty.
ParseInit(bufs, wants) ==
  /\ src \in bufs
  /\ cutset = <<>>
  /\ out = EmptyMap
  /\ wantComments \in wants
  /\ comments = EmptyMap
  /\ err = NoErr
  /\ pc = "start"
  /\ specs = EmptyMap
  /\ str = <<>>
  /\ ret = <<>>

MaxPieces == 5

Pieces ==
  {<<"A">>, <<"=">>, <<" ">>, <<"&">>, <<NL>>, <<prefixDoubleQuote>>,
   exportPrefix, <<charComment, "c">>}

Init == ParseInit(Buffers(Pieces, MaxPieces), BOOLEAN)

Next == Normalize \/ Iterate

Spec == Init /\ [][Next]_allvars

----------------------------------------------------------------------------
(* Claims about the scanner, under Spec and FairSpec *)

\* [A-Za-z0-9_.]
KeyCharset == UpperChars \cup LowerChars \cup DigitChars \cup {"_", "."}

\* C3: every key stored in the output mapping is not empty and is made of
\* letters, digits, underscore and dot only.
C3_StoredKeysMatchCharset ==
  \A k \in DOMAIN out :
    k # <<>> /\ \A i \in 1..Len(k) : k[i] \in KeyCharset

\* A statement without a delimiter and without a character a key cannot
\* hold: the scan for the key reaches the end of the buffer.
ScanReachesEnd(st) ==
  st # <<>> /\ \A i \in 1..Len(st) : st[i] \in KeyCharset \cup SpaceChars

\* The word export, then one blank or more, then the end of the buffer.
ExportThenBlanks(st) ==
  /\ HasPrefix(st, exportPrefix)
  /\ Len(st) > Len(exportPrefix)
  /\ \A i \in (Len(exportPrefix) + 1)..Len(st) : st[i] \in SpaceChars

\* C4 as stated: a returned error is the invalid-key-character error or the
\* unterminated-quoted-value error, and a statement whose scan reaches the
\* end of the buffer without a delimiter ends the parse without an error.
C4_TwoErrorKindsOnly ==
  pc = "done" =>
    /\ err \in {NoErr, ErrUnexpectedChar, ErrUnterminated}
    /\ ScanReachesEnd(cutset) => err = NoErr

\* C4 as amended: there is a third error, "zero length string", returned
\* exactly when the last statement is export followed only by blanks; every
\* other statement whose scan reaches the end of the buffer without a
\* delimiter ends the parse without an error.
C4_ThreeErrorKinds ==
  pc = "done" =>
    /\ err \in {NoErr, ErrUnexpectedChar, ErrUnterminated, ErrZeroLength}
    /\ err = ErrZeroLength <=> ExportThenBlanks(cutset)
    /\ (ScanReachesEnd(cutset) /\ ~ExportThenBlanks(cutset)) => err = NoErr

C4_Witness ==
  pc = "done" /\ err = ErrZeroLength /\ ExportThenBlanks(cutset)

\* C5 as stated: a call that fails with the invalid-key-character error
\* leaves no entry in the output mapping and none in the comment mapping.
C5_NoPartialMapping ==
  (pc = "done" /\ err = ErrUnexpectedChar) =>
    (out = EmptyMap /\ comments = EmptyMap)

\* C5 as amended: the iteration that fails with the invalid-key-character
\* error writes nothing and removes nothing: the entries of the statements
\* before the offending one stay in both mappings.
C5_FailureKeepsEarlierEntries ==
  [][(pc = "loop" /\ pc' = "done" /\ err' = ErrUnexpectedChar)
       => (out' = out /\ comments' = comments)]_allvars

C5_Witness ==
  /\ pc = "done"
  /\ err = ErrUnexpectedChar
  /\ out # EmptyMap
  /\ comments # EmptyMap

IsProperSuffix(a, b) ==
  Len(a) < Len(b) /\ a = Drop(b, Len(b) - Len(a))

\* Nothing but blank lines and comment lines, or no delimiter at all.
NoStatementLeft(c) ==
  \/ getStatementStart(c) = <<>>
  \/ \A i \in 1..Len(c) : c[i] \notin {"=", ":"}

\* C10: in every state the loop can be in, the next iteration either ends
\* the loop or stores a key and leaves a strictly shorter suffix of the
\* remaining buffer, so the loop ends after at most as many iterations as
\* the buffer has characters; a remaining buffer that is key-less or holds
\* only comments ends the loop; and the cursor of two successive states of
\* the loop only moves forward.
C10_ForwardAndTerminates ==
  /\ [](pc = "loop" =>
          LET r == LoopBody(cutset, out, comments, wantComments) IN
            /\ r.pc \in {"loop", "done"}
            /\ r.pc = "loop" =>
                 /\ IsProperSuffix(r.cutset, cutset)
                 /\ DOMAIN r.out # {}
            /\ NoStatementLeft(cutset) => r.pc = "done")
  /\ [][pc = "loop" /\ pc' = "loop" =>
          IsProperSuffix(cutset', cutset)]_allvars

\* Two iterations have stored keys and the loop has ended.
C10_Witness ==
  /\ pc = "done"
  /\ Cardinality(DOMAIN out) >= 2
  /\ Len(cutset) < Len(src)

----------------------------------------------------------------------------
(* Claims about values and comments, under SpecStmts: buffers made of keys *)
(* with their delimiter, references, a plain character, line terminators,  *)
(* a double quote and a comment marker.                                    *)

MaxStmtPieces == 5

StmtPieces ==
  {<<"A", "=">>, <<"B", "=">>, <<"$", "B">>, <<"$", "{", "A", "}">>,
   <<"x">>, <<NL>>, <<CR>>, <<prefixDoubleQuote>>, <<" ", charComment>>}

InitStmts == ParseInit(Buffers(StmtPieces, MaxStmtPieces), {TRUE})

SpecStmts == InitStmts /\ [][Next]_allvars

\* The remainder the value extractor is given for the statement at the
\* cursor c.
ValueText(c) == locateKeyName(getStatementStart(c)).cutset

KeyAt(c) == locateKeyName(getStatementStart(c)).key

\* s with every reference $NAME and ${NAME} deleted, NAME in [A-Z0-9_]+.
RECURSIVE StripRefs(_)
StripRefs(s) ==
  IF s = <<>> THEN <<>>
  ELSE IF s[1] = "$" /\ Len(s) >= 2 /\ s[2] \in VarNameChars
       THEN StripRefs(Drop(s, NameEnd(s, 1)))
  ELSE IF /\ s[1] = "$" /\ Len(s) >= 4 /\ s[2] = "{"
          /\ s[3] \in VarNameChars
          /\ NameEnd(s, 2) < Len(s) /\ s[NameEnd(s, 2) + 1] = "}"
       THEN StripRefs(Drop(s, NameEnd(s, 2) + 1))
  ELSE <<s[1]>> \o StripRefs(Tail(s))

\* The names s refers to with $NAME and ${NAME}.
RECURSIVE RefNames(_)
RefNames(s) ==
  IF s = <<>> THEN {}
  ELSE IF s[1] = "$" /\ Len(s) >= 2 /\ s[2] \in VarNameChars
       THEN {Slice(s, 1, NameEnd(s, 1))}
              \cup RefNames(Drop(s, NameEnd(s, 1)))
  ELSE IF /\ s[1] = "$" /\ Len(s) >= 4 /\ s[2] = "{"
          /\ s[3] \in VarNameChars
          /\ NameEnd(s, 2) < Len(s) /\ s[NameEnd(s, 2) + 1] = "}"
       THEN {Slice(s, 2, NameEnd(s, 2))}
              \cup RefNames(Drop(s, NameEnd(s, 2) + 1))
  ELSE RefNames(Tail(s))

\* A value text that is plain characters and references only: no backslash,
\* no parenthesis, and no $ or brace outside a reference.
PlainWithRefs(s) ==
  /\ \A i \in 1..Len(s) : s[i] \notin {BS, "("}
  /\ LET p == StripRefs(s) IN
       \A j \in 1..Len(p) : p[j] \notin {"$", "{", "}"}

\* Whether the value text s holds an unquoted value (and is not a comment
\* from its first character on) or a closed double-quoted one.
HasSubstitutedValue(s) ==
  IF hasQuotePrefix(s)
  THEN s[1] = prefixDoubleQuote /\ ClosingQuote(s, s[1]) # -1
  ELSE ~HasPrefix(s, <<charComment>>)

\* The literal value of the value text s, before substitution.
Literal(s) ==
  IF hasQuotePrefix(s)
  THEN Slice(s, 1, ClosingQuote(s, s[1]))
  ELSE LET line == Take(s, findEndOfLine(s)) IN
       TrimFunc(Take(line, findEndOfVar(line)), SpaceChars)

\* C1: when a statement is stored whose value refers only to names that no
\* earlier statement has assigned, every reference is replaced by the empty
\* string, and no statement changes the value stored for the key of an
\* earlier one: a later assignment of the name never reaches it.
C1_LeftToRight ==
  [][(pc = "loop" /\ pc' = "loop") =>
       LET s == ValueText(cutset)
           key == KeyAt(cutset)
       IN /\ ( /\ HasSubstitutedValue(s)
               /\ PlainWithRefs(Literal(s))
               /\ RefNames(Literal(s)) # {}
               /\ RefNames(Literal(s)) \cap DOMAIN out = {} )
               => out'[key] = StripRefs(Literal(s))
          /\ \A x \in DOMAIN out \ {key} : out'[x] = out[x]]_allvars

\* A=$B, then B=x: A is empty and B is x.
C1_Witness ==
  /\ pc = "done"
  /\ src = <<"A", "=", "$", "B", NL, "B", "=", "x">>
  /\ out = [k \in {<<"A">>, <<"B">>} |->
              IF k = <<"A">> THEN <<>> ELSE <<"x">>]

\* A key, a delimiter and the rest of a line.
IsStatement(s) ==
  /\ \A i \in 1..Len(s) : s[i] \notin LineEndChars
  /\ \E i \in 2..Len(s) :
       s[i] \in {"=", ":"} /\ \A j \in 1..(i - 1) : s[j] \in KeyCharset

\* C6: for two statements S1 and S2, the buffer S1 \r S2 gives the output
\* mapping of the buffer S1 \n S2.
C6_BareCRLikeLF ==
  pc = "done" =>
    \A p \in 1..Len(src) :
      ( /\ src[p] = CR
        /\ IsStatement(Take(src, p - 1))
        /\ IsStatement(Drop(src, p)) )
      => out = parseBytesWithComments([src EXCEPT ![p] = NL],
                                      wantComments).out

\* C7: the comment stored for a quoted value is taken from the text that
\* follows the closing quote on the same line.
C7_QuotedCommentAfterClosingQuote ==
  [][(pc = "loop" /\ pc' = "loop") =>
       LET s == ValueText(cutset)
           key == KeyAt(cutset)
       IN (hasQuotePrefix(s) /\ key \notin DOMAIN comments
             /\ key \in DOMAIN comments') =>
          LET after == Drop(s, ClosingQuote(s, s[1]) + 1)
              line == Take(after, findEndOfLine(after))
          IN \E j \in 0..Len(line) :
               comments'[key] = TrimSpace(Drop(line, j))]_allvars

----------------------------------------------------------------------------
(* expandVariables and expandEscapes, each applied alone *)

\* The state before a call of one function of the package on the argument
\* str (and, for expandVariables, the mapping out).
CallInit(args, maps) ==
  /\ str \in args
  /\ out \in maps
  /\ pc = "call"
  /\ ret = <<>>
  /\ src = <<>>
  /\ cutset = <<>>
  /\ wantComments = FALSE
  /\ comments = EmptyMap
  /\ err = NoErr
  /\ specs = EmptyMap

ApplyExpandVariables ==
  /\ pc = "call"
  /\ ret' = expandVariables(str, out)
  /\ pc' = "ret"
  /\ UNCHANGED <<src, cutset, out, wantComments, comments, err, specs, str>>

ApplyExpandEscapes ==
  /\ pc = "call"
  /\ ret' = expandEscapes(str)
  /\ pc' = "ret"
  /\ UNCHANGED <<src, cutset, out, wantComments, comments, err, specs, str>>

MaxExpandPieces == 4

ExpandPieces ==
  {<<"$">>, <<"(">>, <<")">>, <<"{">>, <<"}">>, <<"A">>, <<"B">>,
   <<BS>>, <<"x">>}

\* The resolved-so-far mappings: A and B, each absent, empty or "v".
ExpandMaps ==
  UNION {[names -> {<<>>, <<"v">>}] : names \in SUBSET {<<"A">>, <<"B">>}}

InitExpand == CallInit(Buffers(ExpandPieces, MaxExpandPieces), ExpandMaps)

NextExpand == ApplyExpandVariables

SpecExpand == InitExpand /\ [][NextExpand]_allvars

\* Whether t occurs in s as a run of consecutive characters.
Contains(s, t) ==
  \E i \in 0..(Len(s) - Len(t)) : Slice(s, i, i + Len(t)) = t

\* C2: a $ followed directly by ( is not substituted: wherever the argument
\* holds $( and a name, the result holds the same text $(NAME, and the
\* argument that is $(NAME and nothing else comes out as it is.
C2_DollarParenLiteral ==
  pc = "ret" =>
    \A i \in 0..(Len(str) - 3) :
      ( /\ str[i + 1] = "$"
        /\ str[i + 2] = "("
        /\ str[i + 3] \in VarNameChars )
      => LET text == Slice(str, i, NameEnd(str, i + 2)) IN
           /\ Contains(ret, text)
           /\ str = text => ret = str

MaxEscapeLen == 5

EscapePieces ==
  {<<"a">>, <<"b">>, <<"n">>, <<"r">>, <<BS>>, <<NL>>, <<CR>>}

InitEscapes == CallInit(Buffers(EscapePieces, MaxEscapeLen), {EmptyMap})

NextEscapes == ApplyExpandEscapes

SpecEscapes == InitEscapes /\ [][NextEscapes]_allvars

\* s read left to right as backslash pairs that do not overlap: \n is a
\* line feed, \r a carriage return, any other \X is X.
RECURSIVE PairDecode(_)
PairDecode(s) ==
  IF s = <<>> THEN <<>>
  ELSE IF s[1] = BS /\ Len(s) >= 2
       THEN <<IF s[2] = "n" THEN NL ELSE IF s[2] = "r" THEN CR ELSE s[2]>>
              \o PairDecode(Drop(s, 2))
       ELSE <<s[1]>> \o PairDecode(Tail(s))

\* C8: on a content without $, expandEscapes gives the content read left to
\* right as backslash pairs: a\nb gives a, line feed, b, and a\\nb gives a,
\* one backslash, n, b.
C8_EscapePairs ==
  pc = "ret" =>
    /\ ret = PairDecode(str)
    /\ str = <<"a", BS, "n", "b">> => ret = <<"a", NL, "b">>
    /\ str = <<"a", BS, BS, "n", "b">> => ret = <<"a", BS, "n", "b">>

C8_Witness ==
  /\ pc = "ret"
  /\ str = <<"a", BS, BS, "n", "b">>
  /\ ret = <<"a", BS, "n", "b">>

----------------------------------------------------------------------------
(* GenerateSpecsFromComments *)

UpperSeq ==
  <<"A", "B", "C", "D", "E", "F", "G", "H", "I", "J", "K", "L", "M",
    "N", "O", "P", "Q", "R", "S", "T", "U", "V", "W", "X", "Y", "Z">>

LowerSeq ==
  <<"a", "b", "c", "d", "e", "f", "g", "h", "i", "j", "k", "l", "m",
    "n", "o", "p", "q", "r", "s", "t", "u", "v", "w", "x", "y", "z">>

DigitSeq == <<"0", "1", "2", "3", "4", "5", "6", "7", "8", "9">>

\* strings.ToUpper and strings.ToLower on one ASCII character
ToUpperChar(c) ==
  IF \E i \in 1..Len(LowerSeq) : LowerSeq[i] = c
  THEN UpperSeq[CHOOSE i \in 1..Len(LowerSeq) : LowerSeq[i] = c]
  ELSE c

ToLowerChar(c) ==
  IF \E i \in 1..Len(UpperSeq) : UpperSeq[i] = c
  THEN LowerSeq[CHOOSE i \in 1..Len(UpperSeq) : UpperSeq[i] = c]
  ELSE c

upperFirstLetter(s) ==
  IF Len(s) = 0 THEN s
  ELSE <<ToUpperChar(s[1])>> \o [i \in 1..(Len(s) - 1) |-> ToLowerChar(s[i + 1])]

SpecNameOpaque == <<"O", "p", "a", "q", "u", "e">>
SpecNamePlain == <<"P", "l", "a", "i", "n">>
SpecNameSecret == <<"S", "e", "c", "r", "e", "t">>
SpecNamePassword == <<"P", "a", "s", "s", "w", "o", "r", "d">>
SpecNameNumber == <<"N", "u", "m", "b", "e", "r">>

\* The keys of specsHandlers; every one of them maps to validateInput.
specsHandlers ==
  {SpecNameOpaque, SpecNamePlain, SpecNameSecret, SpecNamePassword,
   SpecNameNumber}

LengthKey == <<"l", "e", "n", "g", "t", "h">>

\* A JSON number of the form D or D.D, as a float64 kept in tenths.
IsJsonNumber(v) ==
  \/ Len(v) = 1 /\ v[1] \in DigitChars
  \/ Len(v) = 3 /\ v[1] \in DigitChars /\ v[2] = "." /\ v[3] \in DigitChars

DigitValue(c) == (CHOOSE i \in 1..Len(DigitSeq) : DigitSeq[i] = c) - 1

JsonTenths(v) ==
  IF Len(v) = 1 THEN 10 * DigitValue(v[1])
  ELSE 10 * DigitValue(v[1]) + DigitValue(v[3])

\* A JSON string without escapes: "...".
IsJsonString(v) ==
  /\ Len(v) >= 2
  /\ v[1] = "\"" /\ v[Len(v)] = "\""
  /\ \A i \in 2..(Len(v) - 1) : v[i] \notin {"\"", BS}

\* json.Unmarshal(b, &jsonMap) into the map made just before, on the
\* texts {} and {"key":value} with a value that is a number D or D.D or a
\* string; every other text of the model is not JSON, and leaves an error
\* and the map empty.  A number decodes to a float64, a string to a string.
JsonUnmarshal(b) ==
  IF b = <<"{", "}">> THEN [ok |-> TRUE, map |-> EmptyMap]
  ELSE
  LET q == IF Len(b) >= 3 THEN IndexIn(Drop(b, 2), {"\""}) + 2 ELSE -1
      \* q: Go index of the quote that closes the key
      wellFormed ==
        /\ Len(b) >= 3 /\ q >= 2
        /\ b[1] = "{" /\ b[2] = "\"" /\ b[Len(b)] = "}"
        /\ q + 2 < Len(b) /\ b[q + 2] = ":"
      key == Slice(b, 2, q)
      v == Slice(b, q + 2, Len(b) - 1)
  IN IF wellFormed /\ IsJsonNumber(v)
     THEN [ok |-> TRUE,
           map |-> MapPut(EmptyMap, key,
                          [type |-> "float64", tenths |-> JsonTenths(v)])]
     ELSE IF wellFormed /\ IsJsonString(v)
     THEN [ok |-> TRUE,
           map |-> MapPut(EmptyMap, key, [type |-> "string", tenths |-> 0])]
     ELSE [ok |-> FALSE, map |-> EmptyMap]

\* int(length) of a float64 that is not negative: the fraction is dropped.
IntOfFloat(tenths) == tenths \div 10

\* Mutant of validateInput: the length is a minimum, not the exact length.
validateInputAtLeast(spec, value, params) ==
  IF TrimSpace(value) # <<>>
  THEN IF /\ spec.Required
          /\ ~params.isNil
          /\ LengthKey \in DOMAIN params.map
          /\ params.map[LengthKey].type = "float64"
       THEN [spec EXCEPT
               !.Valid = Len(value) >= IntOfFloat(params.map[LengthKey].tenths)]
       ELSE [spec EXCEPT !.Valid = TRUE]
  ELSE spec

\* params is [isNil, map]: a nil map, or the map json.Unmarshal filled.
validateInput(spec, value, params) ==
  IF TrimSpace(value) # <<>>
  THEN IF /\ spec.Required
          /\ ~params.isNil
          /\ LengthKey \in DOMAIN params.map
          /\ params.map[LengthKey].type = "float64"
       THEN [spec EXCEPT
               !.Valid = Len(value) = IntOfFloat(params.map[LengthKey].tenths)]
       ELSE [spec EXCEPT !.Valid = TRUE]
  ELSE spec

HasSuffix(s, c) == Len(s) >= 1 /\ s[Len(s)] = c

TrimSuffix(s, c) == IF HasSuffix(s, c) THEN Take(s, Len(s) - 1) ELSE s

\* The body of the loop of GenerateSpecsFromComments for one key.
SpecOf(value, comment) ==
  LET spec0 == [Name |-> SpecNameOpaque, Required |-> FALSE, Valid |-> FALSE]
  IN
  IF comment = <<>> THEN spec0
  ELSE
  LET colon == IndexIn(comment, {":"})            \* strings.SplitN(.., ":", 2)
      part0 == IF colon = -1 THEN comment ELSE Take(comment, colon)
      hasParams == colon # -1
      jsonMap == IF hasParams
                 THEN [isNil |-> FALSE,
                       map |-> JsonUnmarshal(Drop(comment, colon + 1)).map]
                 ELSE [isNil |-> TRUE, map |-> EmptyMap]
      name0 == upperFirstLetter(part0)
      required == HasSuffix(name0, "!")
      name == TrimSuffix(name0, "!")
      spec == [Name |-> IF name # <<>> THEN name ELSE SpecNameOpaque,
               Required |-> required, Valid |-> FALSE]
  IN IF spec.Name \in specsHandlers
     THEN validateInput(spec, value, jsonMap)
     ELSE spec

GenerateSpecsFromComments(values, cms) ==
  [key \in DOMAIN values |-> SpecOf(values[key], MapGet(cms, key))]

\* The caller hands the two mappings of a parse to
\* GenerateSpecsFromComments.
GenerateSpecs ==
  /\ pc = "done"
  /\ specs' = GenerateSpecsFromComments(out, comments)
  /\ pc' = "specs"
  /\ UNCHANGED <<src, cutset, out, wantComments, comments, err, str, ret>>

----------------------------------------------------------------------------
(* Claims about GenerateSpecsFromComments, under SpecAnnot: one key A with *)
(* a value and a comment Name, Name!, Name:params or Name!:params, and at  *)
(* times a second key B.                                                   *)

MaxValueLen == 3
MaxLength == 3

AnnotValues ==
  {<<>>, <<" ">>, <<" ", "a">>}
    \cup {[i \in 1..n |-> "a"] : n \in 1..MaxValueLen}

AnnotNames ==
  {<<>>, SpecNamePassword, SpecNameSecret, SpecNameNumber, SpecNameOpaque,
   <<"p", "a", "s", "s", "w", "o", "r", "d">>, <<"P", "L", "A", "I", "N">>,
   <<"T", "e", "x", "t">>}

NumberTexts ==
  {<<DigitSeq[n + 1]>> : n \in 0..MaxLength}
    \cup {<<DigitSeq[n + 1], ".", "5">> : n \in 0..MaxLength}

ParamTexts ==
  {<<"{", "}">>, <<"{", "b", "a", "d">>,
   <<"{", "\"">> \o LengthKey \o <<"\"", ":", "\"", "2", "\"", "}">>,
   <<"{", "\"", "s", "i", "z", "e", "\"", ":", "2", "}">>}
    \cup {<<"{", "\"">> \o LengthKey \o <<"\"", ":">> \o n \o <<"}">> :
            n \in NumberTexts}

AnnotComments ==
  {n \o b \o p : n \in AnnotNames, b \in {<<>>, <<"!">>},
                 p \in {<<>>} \cup {<<":">> \o x : x \in ParamTexts}}

\* What the parse left for the second key, when there is one.
SecondKeys ==
  {EmptyMap,
   [k \in {<<"B">>} |-> [value |-> <<"b">>, comment |-> <<>>]],
   [k \in {<<"B">>} |-> [value |-> <<>>, comment |-> SpecNamePlain]]}

\* The state after a parse that ended without an error: the comment
\* mapping holds the comments that are not empty.
InitAnnot ==
  /\ \E v \in AnnotValues, c \in AnnotComments, second \in SecondKeys :
       LET e == [k \in {<<"A">>} \cup DOMAIN second |->
                   IF k = <<"A">> THEN [value |-> v, comment |-> c]
                   ELSE second[k]]
       IN /\ out = [k \in DOMAIN e |-> e[k].value]
          /\ comments = [k \in {x \in DOMAIN e : e[x].comment # <<>>} |->
                           e[k].comment]
  /\ pc = "done"
  /\ err = NoErr
  /\ wantComments = TRUE
  /\ src = <<>>
  /\ cutset = <<>>
  /\ specs = EmptyMap
  /\ str = <<>>
  /\ ret = <<>>

NextAnnot == GenerateSpecs

SpecAnnot == InitAnnot /\ [][NextAnnot]_allvars

RecognizedNames ==
  {SpecNameOpaque, SpecNamePlain, SpecNameSecret, SpecNamePassword,
   SpecNameNumber}

\* The name of a comment: the text before the first ":", case-normalized,
\* a trailing "!" stripped.
CommentName(c) ==
  LET colon == IndexIn(c, {":"})
      head == upperFirstLetter(IF colon = -1 THEN c ELSE Take(c, colon))
  IN IF head # <<>> /\ head[Len(head)] = "!"
     THEN Take(head, Len(head) - 1) ELSE head

\* The parameters of a comment, decoded: empty when there are none.
CommentParams(c) ==
  LET colon == IndexIn(c, {":"}) IN
  IF colon = -1 THEN EmptyMap ELSE JsonUnmarshal(Drop(c, colon + 1)).map

HasNumericLength(c) ==
  /\ LengthKey \in DOMAIN CommentParams(c)
  /\ CommentParams(c)[LengthKey].type = "float64"

LengthTenths(c) == CommentParams(c)[LengthKey].tenths

====
